---- MODULE Spec2Model ----
(***************************************************************************)
(* plotcap: src/src/main.rs.  The model follows the processing loop of     *)
(* main(): one action per outcome of reader.next(), each covering the      *)
(* whole loop iteration (decode, consume, count, report, break).           *)
(*                                                                         *)
(* Times.  A NaiveDateTime is [secs, nsecs]; a chrono::Duration is         *)
(* [secs, nanos] with 0 <= nanos < 10^9, compared lexicographically, as    *)
(* chrono stores and compares them.                                        *)
(***************************************************************************)
EXTENDS Integers, Sequences, FiniteSets, TLC

\* ------------------------------------------------------------------ bounds
\* Blocks the framing layer hands out before the input is exhausted.
MaxBlocks == 6

\* --------------------------------------------------------- program constants
POWER_BITS == 127
EXPONENT_FLAG_BIT == 128
NANOS_PER_SECOND == 1000000000
NANOS_PER_MICRO == 1000
MICROS_PER_SECOND == 1000000

\* ------------------------------------------------------------ input domains
\* cli.minimum_reporting_period: positive durations.
Periods == { [secs |-> 0, nanos |-> 600000000], [secs |-> 1, nanos |-> 0] }
\* (ts_sec, ts_usec) of legacy packet records.
LegacyStamps ==
  { <<0, 0>>, <<0, 300000>>, <<0, 600000>>, <<0, 900000>>, <<0, 999999>>,
    <<1, 0>>, <<1, 200000>>, <<1, 500000>> }
\* (ts_high, ts_low) of enhanced packet blocks.
NGStamps == { <<0, 0>>, <<0, 1000>>, <<0, 1536>>, <<0, 1300000>>, <<0, 2000000>> }
\* if_tsresol of interface description blocks: 10^-6, 10^-3, 2^-10.
TsResols == { 6, 3, 138 }
\* (origlen, caplen) of packet records.
Lens == { <<100, 80>> }
\* A legacy packet record whose origlen, a header field of its own whatever
\* was captured, is large: (ts_sec, ts_usec, origlen, caplen).
LargeLegacy == { << 0, 300000, 2147483647, 80 >> }

ReaderKinds == { "pcap", "pcapng" }

\* ------------------------------------------------------------- arithmetic
RECURSIVE Pow(_, _)
Pow(b, e) == IF e = 0 THEN 1 ELSE b * Pow(b, e - 1)

\* Bitwise AND of two naturals.
RECURSIVE BitAnd(_, _)
BitAnd(a, b) ==
  IF a = 0 \/ b = 0 THEN 0
  ELSE 2 * BitAnd(a \div 2, b \div 2) + (IF a % 2 = 1 /\ b % 2 = 1 THEN 1 ELSE 0)

\* One binary digit of the long multiplication below: from h = <<q, r>> for
\* the higher digits to <<2q, 2r + ad>> renormalised to a remainder below c.
MulDivStep(h, ad, c) ==
  LET d1 == IF h[2] >= c - h[2] THEN <<1, h[2] - (c - h[2])>> ELSE <<0, h[2] + h[2]>>
      d2 == IF d1[2] >= c - ad THEN <<1, d1[2] - (c - ad)>> ELSE <<0, d1[2] + ad>>
  IN  <<2 * h[1] + d1[1] + d2[1], d2[2]>>

\* <<q, r>> with a * b = q * c + r and 0 <= r < c, for a < c: the exact
\* value of the 64-bit (a * b) / c, computed without leaving 31 bits.
RECURSIVE MulDivRem(_, _, _)
MulDivRem(a, b, c) ==
  IF b = 0 THEN <<0, 0>>
  ELSE CHOOSE y \in { MulDivStep(h, IF b % 2 = 1 THEN a ELSE 0, c) :
                      h \in { MulDivRem(a, b \div 2, c) } } : TRUE

MulDiv(a, b, c) == MulDivRem(a, b, c)[1]

\* Integer division truncating toward zero, as Rust's / on signed integers.
TruncDiv(a, b) == IF a >= 0 THEN a \div b ELSE -((-a) \div b)

\* A u32 counter is held as the 32-bit integer with the same bits: values up
\* to 2^31 - 1 as themselves, values from 2^31 as the value minus 2^32.  Sums
\* are formed on the two 16-bit halves, so that no intermediate result leaves
\* the 32 bits.
Half == 65536

Lo(v) == v % Half

Hi(v) == (v \div Half) % Half

FromHalves(h, l) == (IF h >= Half \div 2 THEN h - Half ELSE h) * Half + l

\* a + b on u32: the sum modulo 2^32, and whether it passed 2^32 - 1.
AddU32(a, b) ==
  LET lo == Lo(a) + Lo(b)
      hi == Hi(a) + Hi(b) + lo \div Half
  IN  [value |-> FromHalves(hi % Half, lo % Half), carry |-> hi >= Half]

\* ------------------------------------------------------------------ chrono
NoTime == [none |-> TRUE]
DateTime(s, n) == [secs |-> s, nsecs |-> n]

\* NaiveDateTime::from_timestamp_opt(secs, nsecs): None when nsecs is out of
\* range (chrono accepts up to 1,999,999,999, the leap-second representation).
FromTimestampOpt(secs, nsecs) ==
  IF nsecs < 2 * NANOS_PER_SECOND THEN DateTime(secs, nsecs) ELSE NoTime

\* NaiveDateTime - NaiveDateTime.
TimeSub(a, b) ==
  LET s == a.secs - b.secs
      n == a.nsecs - b.nsecs
  IN  IF n < 0 THEN [secs |-> s - 1, nanos |-> n + NANOS_PER_SECOND]
      ELSE IF n >= NANOS_PER_SECOND THEN [secs |-> s + 1, nanos |-> n - NANOS_PER_SECOND]
      ELSE [secs |-> s, nanos |-> n]

\* Duration >= Duration.
DurGe(a, b) == a.secs > b.secs \/ (a.secs = b.secs /\ a.nanos >= b.nanos)

\* Duration::num_microseconds(): whole microseconds, truncated toward zero.
NumMicroseconds(d) ==
  LET neg == d.secs < 0 /\ d.nanos > 0
      s   == IF neg THEN d.secs + 1 ELSE d.secs
      n   == IF neg THEN d.nanos - NANOS_PER_SECOND ELSE d.nanos
  IN  s * MICROS_PER_SECOND + TruncDiv(n, NANOS_PER_MICRO)

\* ------------------------------------------------------ timestamp resolver
Exponent(if_tsresol) == BitAnd(if_tsresol, POWER_BITS)
Flag(if_tsresol) == BitAnd(if_tsresol, EXPONENT_FLAG_BIT) = EXPONENT_FLAG_BIT
Divisor(if_tsresol) ==
  IF Flag(if_tsresol) THEN Pow(2, Exponent(if_tsresol)) ELSE Pow(10, Exponent(if_tsresol))

\* (ts_high as u64) << 32 | (ts_low as u64)
Ticks(ts_high, ts_low) ==
  IF ts_high = 0 THEN ts_low ELSE ts_high * 65536 * 65536 + ts_low

\* Mutant: the base-10 remainder is returned as it is, not scaled to nanoseconds.
PcapngTimestampUnscaled(if_tsresol, ts_high, ts_low) ==
  LET divisor == Divisor(if_tsresol)
      ts      == Ticks(ts_high, ts_low)
  IN  { FromTimestampOpt(ts \div divisor, ts % divisor) }

\* The closure make_pcapng_timestamp(if_tsresol) applied to (ts_high, ts_low):
\* the set of results the build can produce, NoTime standing for a panic.
\* With exponent 0 and the base-2 flag, `exponent as u64 - 1` underflows: a
\* panic with overflow checks, the all-ones mask without (then nsecs as u32
\* is ts_low).
PcapngTimestamp(if_tsresol, ts_high, ts_low) ==
  LET exponent == Exponent(if_tsresol)
      divisor  == Divisor(if_tsresol)
      ts       == Ticks(ts_high, ts_low)
  IN  IF Flag(if_tsresol)
      THEN IF exponent = 0
           THEN { NoTime, FromTimestampOpt(ts, ts_low) }
           ELSE { FromTimestampOpt(ts \div Pow(2, exponent),
                                   BitAnd(ts, exponent - 1) \div divisor) }
      ELSE { FromTimestampOpt(ts \div divisor,
                              MulDiv(ts % divisor, NANOS_PER_SECOND, divisor)) }

\* The Legacy arm: from_timestamp_opt(ts_sec as i64, ts_usec * NANOS_PER_MICRO).
LegacyTimestamp(ts_sec, ts_usec) == FromTimestampOpt(ts_sec, ts_usec * NANOS_PER_MICRO)

\* ------------------------------------------------------------------- state
VARIABLES
  reader,                     \* the framing layer (pcap_parser reader)
  minimum_reporting_period,   \* cli.minimum_reporting_period
  this_packet_ts, first_packet_ts, previous_packet_ts,
  packet_count, byte_count_wire, byte_count_capture,
  eof, file_type,
  pcapng_timestamp,           \* the if_tsresol the active closure was built from
  writer,                     \* the data rows written so far
  dur,                        \* the duration `dur` of the plot title, once computed
  pc,                         \* "loop", "done" (after break), "exit", "panic"
  obs                         \* observations of the run, read by the properties only

vars == << reader, minimum_reporting_period, dur, this_packet_ts, first_packet_ts,
           previous_packet_ts, packet_count, byte_count_wire, byte_count_capture,
           eof, file_type, pcapng_timestamp, writer, pc, obs >>

epoch_ts == DateTime(0, 0)

\* `dur` before line 218 has run.
NoDuration == [none |-> TRUE]

\* ------------------------------------------------------------------ blocks
NoBlock == [type |-> "None"]
LegacyHeaderBlock == [type |-> "LegacyHeader"]
LegacyBlocks ==
  { [type |-> "Legacy", ts_sec |-> t[1], ts_usec |-> t[2], origlen |-> l[1], caplen |-> l[2]] :
      t \in LegacyStamps, l \in Lens }
  \cup
  { [type |-> "Legacy", ts_sec |-> r[1], ts_usec |-> r[2], origlen |-> r[3], caplen |-> r[4]] :
      r \in LargeLegacy }
EnhancedPacketBlocks ==
  { [type |-> "EnhancedPacket", ts_high |-> t[1], ts_low |-> t[2],
     origlen |-> l[1], caplen |-> l[2]] : t \in NGStamps, l \in Lens }
SimplePacketBlock == [type |-> "SimplePacket"]
InterfaceDescriptionBlocks ==
  { [type |-> "InterfaceDescription", if_tsresol |-> r] : r \in TsResols }
SectionHeaderBlock == [type |-> "SectionHeader"]
OtherBlocks == { SectionHeaderBlock, [type |-> "NameResolution"] }

\* ------------------------------------------------------------------ reader
\* reader = [kind, front, returned, consumed, refilled, stalled, spin]:
\* front is the block next() returned that is not consumed yet; returned and
\* consumed count the blocks handed out and the consume() calls; refilled
\* says the last refill() completed the partial block at the buffer's end,
\* stalled that no refill can; spin is the parity of the refills that added
\* nothing.
\* What reader.next() can return as a block.  A block that was returned and
\* not consumed is returned again; a legacy reader hands out the file header
\* first, a pcapng reader the section header.
ReaderNext ==
  IF reader.front # NoBlock THEN { reader.front }
  ELSE IF reader.stalled \/ reader.returned >= MaxBlocks THEN {}
  ELSE IF reader.kind = "pcap"
       THEN (IF reader.returned = 0 THEN { LegacyHeaderBlock } ELSE LegacyBlocks)
       ELSE (IF reader.returned = 0 THEN { SectionHeaderBlock }
             ELSE EnhancedPacketBlocks \cup { SimplePacketBlock }
                  \cup InterfaceDescriptionBlocks \cup OtherBlocks)

\* The reader after next() returned Ok((offset, b)).
Returned(b) ==
  [reader EXCEPT !.front = b,
                 !.returned = IF reader.front = NoBlock THEN @ + 1 ELSE @,
                 !.refilled = FALSE]

\* reader.consume(offset)
Consume(r) == [r EXCEPT !.front = NoBlock, !.consumed = @ + 1]

\* ------------------------------------------------------------ observations
\* obs records what the properties need of the run's history: the last block
\* next() returned, the packet records decoded so far, the first packet's
\* timestamp and the timestamp of the first packet or last flush as the
\* aggregation rule defines them (set once at the first packet ever, then at
\* each emitted row), whether an interface description block was seen and
\* the if_tsresol of the last one, whether the decoded timestamps came in
\* order, and the exact number and byte sums of the packets counted since
\* the last row (the sums as hi * 2^16 + lo, hi unbounded), with whether an
\* addition to a counter overflowed.
ObsInit ==
  [block |-> NoBlock, packets |-> 0, saw_idb |-> FALSE, idb_tsresol |-> 0,
   saw_first |-> FALSE,
   first_ts |-> epoch_ts, flush_ts |-> epoch_ts, last_ts |-> epoch_ts,
   nondecr |-> TRUE, spaced |-> TRUE, within |-> 0, last_late |-> FALSE,
   counted |-> 0, wire |-> [hi |-> 0, lo |-> 0], capture |-> [hi |-> 0, lo |-> 0],
   overflow |-> FALSE]

ObsBlock(b) ==
  [obs EXCEPT !.block = b, !.saw_idb = @ \/ b.type = "InterfaceDescription",
              !.idb_tsresol = IF b.type = "InterfaceDescription" THEN b.if_tsresol ELSE @]

\* The exact sum e plus the u32 v.
ExactAdd(e, v) ==
  LET lo == e.lo + Lo(v)
  IN  [hi |-> e.hi + Hi(v) + lo \div Half, lo |-> lo % Half]

\* obs after a row was written: nothing is counted since.
ObsReported(o) ==
  [o EXCEPT !.counted = 0, !.wire = [hi |-> 0, lo |-> 0], !.capture = [hi |-> 0, lo |-> 0]]

\* obs after an addition of lines 167-169 panicked on overflow.
ObsOverflow(b) == [ObsBlock(b) EXCEPT !.overflow = TRUE]

ThreeTenths == [secs |-> 0, nanos |-> 300000000]

\* obs after the packet record (b, ts) was counted; flushed: a row was written.
ObsPacket(b, ts, flushed) ==
  LET first == IF obs.saw_first THEN obs.first_ts ELSE ts
      since == TimeSub(ts, first)
      late  == DurGe(since, minimum_reporting_period)
      o == [obs EXCEPT
         !.block = b,
         !.packets = @ + 1,
         !.saw_first = TRUE,
         !.first_ts = first,
         !.flush_ts = IF flushed \/ ~obs.saw_first THEN ts ELSE @,
         !.last_ts = ts,
         !.nondecr = @ /\ (obs.saw_first => DurGe(TimeSub(ts, obs.last_ts), [secs |-> 0, nanos |-> 0])),
         !.spaced = @ /\ b.type = "Legacy" /\ b.origlen = 100 /\ b.caplen = 80
                      /\ (obs.saw_first => TimeSub(ts, obs.last_ts) = ThreeTenths),
         !.within = IF late THEN @ ELSE @ + 1,
         !.last_late = late,
         !.counted = @ + 1,
         !.wire = ExactAdd(@, b.origlen),
         !.capture = ExactAdd(@, b.caplen)]
  IN  IF flushed THEN ObsReported(o) ELSE o

\* ---------------------------------------------------------------- reporting
\* Mutant: the x value is taken with its operands swapped.
RowSwapped(this, first, prev, count, wire, capture, at_eof) ==
  [elapsed_since_first_packet_us |-> NumMicroseconds(TimeSub(first, this)),
   elapsed_since_last_packet |-> TimeSub(this, prev),
   packet_count |-> count, byte_count_wire |-> wire, byte_count_capture |-> capture,
   at_eof |-> at_eof]

\* Mutant: the elapsed time since the last row is taken with its operands
\* swapped.
RowElapsedSwapped(this, first, prev, count, wire, capture, at_eof) ==
  [elapsed_since_first_packet_us |-> NumMicroseconds(TimeSub(this, first)),
   elapsed_since_last_packet |-> TimeSub(prev, this),
   packet_count |-> count, byte_count_wire |-> wire, byte_count_capture |-> capture,
   at_eof |-> at_eof]

\* The data row of lines 184-200: the x value in whole microseconds, the
\* rates as their numerators over the elapsed duration; at_eof notes the
\* value of eof when the row was written.
Row(this, first, prev, count, wire, capture, at_eof) ==
  [elapsed_since_first_packet_us |-> NumMicroseconds(TimeSub(this, first)),
   elapsed_since_last_packet |-> TimeSub(this, prev),
   packet_count |-> count, byte_count_wire |-> wire, byte_count_capture |-> capture,
   at_eof |-> at_eof]

\* Mutant: at end-of-stream a single leftover packet is reported too.
ShouldReportAnyLeftover(this, prev, count, at_eof) ==
  DurGe(TimeSub(this, prev), minimum_reporting_period) \/ (at_eof /\ count > 0)

\* The condition of line 183.
ShouldReport(this, prev, count, at_eof) ==
  DurGe(TimeSub(this, prev), minimum_reporting_period) \/ (at_eof /\ count > 1)

\* Mutant: the counters are not reset after a row is written.
ReportNoReset(this, first, prev, count, wire, capture, at_eof) ==
  /\ writer' = IF DurGe(TimeSub(this, prev), minimum_reporting_period) \/ (at_eof /\ count > 1)
               THEN Append(writer, [elapsed_since_first_packet_us |-> NumMicroseconds(TimeSub(this, first)),
                                    elapsed_since_last_packet |-> TimeSub(this, prev),
                                    packet_count |-> count, byte_count_wire |-> wire,
                                    byte_count_capture |-> capture, at_eof |-> at_eof])
               ELSE writer
  /\ previous_packet_ts' =
       IF DurGe(TimeSub(this, prev), minimum_reporting_period) \/ (at_eof /\ count > 1)
       THEN this ELSE prev
  /\ packet_count' = count
  /\ byte_count_wire' = wire
  /\ byte_count_capture' = capture

\* Lines 181-206 on the values the iteration has computed so far.
Report(this, first, prev, count, wire, capture, at_eof) ==
  IF ShouldReport(this, prev, count, at_eof)
  THEN /\ writer' = Append(writer, Row(this, first, prev, count, wire, capture, at_eof))
       /\ previous_packet_ts' = this
       /\ packet_count' = 0
       /\ byte_count_wire' = 0
       /\ byte_count_capture' = 0
  ELSE /\ writer' = writer
       /\ previous_packet_ts' = prev
       /\ packet_count' = count
       /\ byte_count_wire' = wire
       /\ byte_count_capture' = capture

\* Mutant: the first-packet initialisation of lines 162-165 is left out.
IsFirstPacketOmitted == FALSE

\* The first-packet test of line 162.
IsFirstPacket == previous_packet_ts = epoch_ts

\* Lines 167-169, the three additions in their order: the counters after
\* them, or the counters as the first overflowing addition leaves them when
\* it panics.  An overflowing u32 addition panics in a build with overflow
\* checks and wraps in a build without them.
Accumulate(b) ==
  LET c == AddU32(byte_count_capture, b.caplen)
      w == AddU32(byte_count_wire, b.origlen)
      n == AddU32(packet_count, 1)
      added == [panic |-> FALSE, capture |-> c.value, wire |-> w.value, count |-> n.value]
      stop(cap, wir) == [panic |-> TRUE, capture |-> cap, wire |-> wir,
                         count |-> packet_count]
  IN  IF c.carry THEN { added, stop(byte_count_capture, byte_count_wire) }
      ELSE IF w.carry THEN { added, stop(c.value, byte_count_wire) }
      ELSE IF n.carry THEN { added, stop(c.value, w.value) }
      ELSE { added }

\* Lines 158-206 for a decoded packet record: b the block, ts its timestamp
\* (NoTime when from_timestamp_opt(..).unwrap() panics, before the consume).
PacketRecord(b, ts) ==
  IF ts = NoTime
  THEN /\ pc' = "panic"
       /\ reader' = Returned(b)
       /\ obs' = ObsBlock(b)
       /\ UNCHANGED << this_packet_ts, first_packet_ts, previous_packet_ts, packet_count,
                       byte_count_wire, byte_count_capture, writer >>
  ELSE LET first == IF IsFirstPacket THEN ts ELSE first_packet_ts
           prev  == IF IsFirstPacket THEN ts ELSE previous_packet_ts
       IN  /\ this_packet_ts' = ts
           /\ reader' = Consume(Returned(b))
           /\ first_packet_ts' = first
           /\ \E acc \in Accumulate(b) :
                IF acc.panic
                THEN /\ previous_packet_ts' = prev
                     /\ byte_count_capture' = acc.capture
                     /\ byte_count_wire' = acc.wire
                     /\ packet_count' = acc.count
                     /\ writer' = writer
                     /\ obs' = ObsOverflow(b)
                     /\ pc' = "panic"
                ELSE /\ Report(ts, first, prev, acc.count, acc.wire, acc.capture, FALSE)
                     /\ obs' = ObsPacket(b, ts, ShouldReport(ts, prev, acc.count, FALSE))
                     /\ pc' = "loop"

\* ------------------------------------------------------------------ actions
Init ==
  /\ reader \in { [kind |-> k, front |-> NoBlock, returned |-> 0, consumed |-> 0,
                   refilled |-> FALSE, stalled |-> FALSE, spin |-> 0] : k \in ReaderKinds }
  /\ minimum_reporting_period \in Periods
  /\ this_packet_ts = epoch_ts
  /\ first_packet_ts = epoch_ts
  /\ previous_packet_ts = epoch_ts
  /\ packet_count = 0
  /\ byte_count_wire = 0
  /\ byte_count_capture = 0
  /\ eof = FALSE
  /\ file_type = "unknown"
  /\ pcapng_timestamp = 6
  /\ writer = << >>
  /\ dur = NoDuration
  /\ pc = "loop"
  /\ obs = ObsInit

\* PcapBlockOwned::Legacy
LegacyPacket ==
  /\ pc = "loop"
  /\ \E b \in ReaderNext :
       /\ b.type = "Legacy"
       /\ PacketRecord(b, LegacyTimestamp(b.ts_sec, b.ts_usec))
  /\ UNCHANGED << minimum_reporting_period, dur, eof, file_type, pcapng_timestamp >>

\* PcapBlockOwned::NG, Block::EnhancedPacket
EnhancedPacket ==
  /\ pc = "loop"
  /\ \E b \in ReaderNext :
       /\ b.type = "EnhancedPacket"
       /\ \E ts \in PcapngTimestamp(pcapng_timestamp, b.ts_high, b.ts_low) :
            PacketRecord(b, ts)
  /\ file_type' = "pcapng"
  /\ UNCHANGED << minimum_reporting_period, dur, eof, pcapng_timestamp >>

\* Mutant: a simple packet block is skipped like the blocks of the `_` arm.
SimplePacketSkipped ==
  /\ pc = "loop"
  /\ \E b \in ReaderNext :
       /\ b.type = "SimplePacket"
       /\ reader' = [reader EXCEPT !.front = NoBlock, !.returned = @ + 1,
                                   !.consumed = @ + 1, !.refilled = FALSE]
       /\ obs' = ObsBlock(b)
  /\ file_type' = "pcapng"
  /\ UNCHANGED << minimum_reporting_period, dur, this_packet_ts, first_packet_ts,
                  previous_packet_ts, packet_count, byte_count_wire, byte_count_capture,
                  eof, pcapng_timestamp, writer, pc >>

\* PcapBlockOwned::NG, Block::SimplePacket: panic, nothing consumed.
SimplePacket ==
  /\ pc = "loop"
  /\ \E b \in ReaderNext :
       /\ b.type = "SimplePacket"
       /\ reader' = Returned(b)
       /\ obs' = ObsBlock(b)
  /\ file_type' = "pcapng"
  /\ pc' = "panic"
  /\ UNCHANGED << minimum_reporting_period, dur, this_packet_ts, first_packet_ts,
                  previous_packet_ts, packet_count, byte_count_wire, byte_count_capture,
                  eof, pcapng_timestamp, writer >>

\* Mutant: an interface description block is consumed without rebuilding
\* the resolver.
InterfaceDescriptionIgnored ==
  /\ pc = "loop"
  /\ \E b \in ReaderNext :
       /\ b.type = "InterfaceDescription"
       /\ reader' = Consume(Returned(b))
       /\ obs' = ObsBlock(b)
  /\ file_type' = "pcapng"
  /\ UNCHANGED << minimum_reporting_period, dur, this_packet_ts, first_packet_ts,
                  previous_packet_ts, packet_count, byte_count_wire, byte_count_capture,
                  eof, pcapng_timestamp, writer, pc >>

\* PcapBlockOwned::NG, Block::InterfaceDescription
InterfaceDescription ==
  /\ pc = "loop"
  /\ \E b \in ReaderNext :
       /\ b.type = "InterfaceDescription"
       /\ pcapng_timestamp' = b.if_tsresol
       /\ reader' = Consume(Returned(b))
       /\ obs' = ObsBlock(b)
  /\ file_type' = "pcapng"
  /\ UNCHANGED << minimum_reporting_period, dur, this_packet_ts, first_packet_ts,
                  previous_packet_ts, packet_count, byte_count_wire, byte_count_capture,
                  eof, writer, pc >>

\* Mutant: the `_` arm continues without consuming the block.
OtherBlockUnconsumed ==
  /\ pc = "loop"
  /\ \E b \in ReaderNext :
       /\ b \in { [type |-> "SectionHeader"], [type |-> "NameResolution"] }
       /\ reader' = [reader EXCEPT !.front = b,
                                   !.returned = IF reader.front = NoBlock THEN @ + 1 ELSE @,
                                   !.refilled = FALSE]
       /\ obs' = ObsBlock(b)
  /\ file_type' = "pcapng"
  /\ UNCHANGED << minimum_reporting_period, dur, this_packet_ts, first_packet_ts,
                  previous_packet_ts, packet_count, byte_count_wire, byte_count_capture,
                  eof, pcapng_timestamp, writer, pc >>

\* Mutant: a block of the `_` arm is counted as a packet.
OtherBlockCounted ==
  /\ pc = "loop"
  /\ \E b \in ReaderNext :
       /\ b \in OtherBlocks
       /\ reader' = Consume(Returned(b))
       /\ obs' = ObsBlock(b)
  /\ file_type' = "pcapng"
  /\ packet_count' = packet_count + 1
  /\ UNCHANGED << minimum_reporting_period, dur, this_packet_ts, first_packet_ts,
                  previous_packet_ts, byte_count_wire, byte_count_capture,
                  eof, pcapng_timestamp, writer, pc >>

\* PcapBlockOwned::NG, any other block
OtherBlock ==
  /\ pc = "loop"
  /\ \E b \in ReaderNext :
       /\ b \in OtherBlocks
       /\ reader' = Consume(Returned(b))
       /\ obs' = ObsBlock(b)
  /\ file_type' = "pcapng"
  /\ UNCHANGED << minimum_reporting_period, dur, this_packet_ts, first_packet_ts,
                  previous_packet_ts, packet_count, byte_count_wire, byte_count_capture,
                  eof, pcapng_timestamp, writer, pc >>

\* Mutant: the legacy file header is consumed without setting file_type.
LegacyHeaderUntagged ==
  /\ pc = "loop"
  /\ \E b \in ReaderNext :
       /\ b.type = "LegacyHeader"
       /\ reader' = Consume(Returned(b))
       /\ obs' = ObsBlock(b)
  /\ UNCHANGED << minimum_reporting_period, dur, this_packet_ts, first_packet_ts,
                  previous_packet_ts, packet_count, byte_count_wire, byte_count_capture,
                  eof, file_type, pcapng_timestamp, writer, pc >>

\* PcapBlockOwned::LegacyHeader
LegacyHeader ==
  /\ pc = "loop"
  /\ \E b \in ReaderNext :
       /\ b.type = "LegacyHeader"
       /\ reader' = Consume(Returned(b))
       /\ obs' = ObsBlock(b)
  /\ file_type' = "pcap"
  /\ UNCHANGED << minimum_reporting_period, dur, this_packet_ts, first_packet_ts,
                  previous_packet_ts, packet_count, byte_count_wire, byte_count_capture,
                  eof, pcapng_timestamp, writer, pc >>

\* What reader.refill() can do when next() found a partial block: read the
\* rest of it ("filled"); return Ok without new data, the buffer being full
\* of a block longer than its 65536 bytes or the file ending inside the
\* block ("stalled"); or fail to read ("failed").
RefillOutcomes ==
  IF reader.stalled THEN { "stalled" } ELSE { "filled", "stalled", "failed" }

\* Err(PcapError::Incomplete): refill().unwrap() and continue.  The first
\* block (file or section header) was read whole by create_reader.
Incomplete ==
  /\ pc = "loop"
  /\ reader.front = NoBlock
  /\ reader.returned >= 1
  /\ ~reader.refilled
  /\ \E o \in RefillOutcomes :
       /\ reader' = [reader EXCEPT !.refilled = (o = "filled"),
                                   !.stalled = (o = "stalled"),
                                   !.spin = IF o = "stalled" THEN 1 - @ ELSE @]
       /\ pc' = IF o = "failed" THEN "panic" ELSE "loop"
  /\ UNCHANGED << minimum_reporting_period, dur, this_packet_ts, first_packet_ts,
                  previous_packet_ts, packet_count, byte_count_wire, byte_count_capture,
                  eof, file_type, pcapng_timestamp, writer, obs >>

\* Err(PcapError::Eof): eof = true, the report of lines 181-206, break.
Eof ==
  /\ pc = "loop"
  /\ reader.front = NoBlock
  /\ reader.returned >= 1
  /\ ~reader.refilled
  /\ ~reader.stalled
  /\ eof' = TRUE
  /\ Report(this_packet_ts, first_packet_ts, previous_packet_ts, packet_count,
            byte_count_wire, byte_count_capture, TRUE)
  /\ obs' = IF ShouldReport(this_packet_ts, previous_packet_ts, packet_count, TRUE)
            THEN ObsReported(obs) ELSE obs
  /\ pc' = "done"
  /\ UNCHANGED << reader, minimum_reporting_period, dur, this_packet_ts, first_packet_ts,
                  file_type, pcapng_timestamp >>

\* Err(e): any other error of the framing layer panics.
ReadError ==
  /\ pc = "loop"
  /\ reader.front = NoBlock
  /\ ~reader.stalled
  /\ pc' = "panic"
  /\ UNCHANGED << reader, minimum_reporting_period, dur, this_packet_ts, first_packet_ts,
                  previous_packet_ts, packet_count, byte_count_wire, byte_count_capture,
                  eof, file_type, pcapng_timestamp, writer, obs >>

\* After the loop: dur = (previous_packet_ts - first_packet_ts).to_std().unwrap()
\* and the plot commands that print it.  to_std() fails on a negative
\* duration and the unwrap panics; format_duration prints the duration
\* exactly, down to the nanosecond.
Summary ==
  /\ pc = "done"
  /\ LET d == TimeSub(previous_packet_ts, first_packet_ts)
     IN  IF d.secs < 0
           THEN pc' = "panic" /\ dur' = dur
           ELSE pc' = "exit" /\ dur' = d
  /\ UNCHANGED << reader, minimum_reporting_period, this_packet_ts, first_packet_ts,
                  previous_packet_ts, packet_count, byte_count_wire, byte_count_capture,
                  eof, file_type, pcapng_timestamp, writer, obs >>

Next ==
  \/ LegacyHeader
  \/ LegacyPacket
  \/ EnhancedPacket
  \/ SimplePacket
  \/ InterfaceDescription
  \/ OtherBlock
  \/ Incomplete
  \/ Eof
  \/ ReadError
  \/ Summary

Spec == Init /\ [][Next]_vars

\* The loop is sequential code: an iteration that can run does run.
FairSpec == Init /\ [][Next]_vars /\ WF_vars(Next)

\* ----------------------------------------------------------------- decoding
\* The two timestamp decodings on their own, applied to raw field values a
\* record can carry: ts_usec is any u32 and is not checked against
\* 1,000,000; if_tsresol is any u8; the tick count is any u64.
RawLegacyStamps ==
  { <<s, u>> : s \in { 0, 59 },
               u \in { 0, 999999, 1000000, 1500000, 1999999, 2000000 } }

RawTsResols == { 0, 3, 6, 9, 128, 129, 138 }

RawTicks == { 0, 1, 999, 1536, 999999, 1500000000, 2000000000 }

\* Lines 122-126 and 158 on a legacy packet block with the fields sec, usec.
DecodeLegacy ==
  /\ pc = "loop"
  /\ reader.kind = "pcap"
  /\ \E st \in RawLegacyStamps :
       LET b  == [type |-> "Legacy", ts_sec |-> st[1], ts_usec |-> st[2],
                  origlen |-> 0, caplen |-> 0]
           ts == LegacyTimestamp(b.ts_sec, b.ts_usec)
       IN  /\ obs' = ObsBlock(b)
           /\ this_packet_ts' = IF ts = NoTime THEN this_packet_ts ELSE ts
           /\ pc' = IF ts = NoTime THEN "panic" ELSE "loop"
  /\ UNCHANGED << reader, minimum_reporting_period, dur, first_packet_ts,
                  previous_packet_ts, packet_count, byte_count_wire, byte_count_capture,
                  eof, file_type, pcapng_timestamp, writer >>

\* Lines 140, 132 and 158: the resolver built for the descriptor r applied to
\* the tick count of an enhanced packet block.
DecodePcapng ==
  /\ pc = "loop"
  /\ reader.kind = "pcapng"
  /\ \E r \in RawTsResols, t \in RawTicks :
       LET b == [type |-> "EnhancedPacket", ts_high |-> 0, ts_low |-> t,
                 origlen |-> 0, caplen |-> 0]
       IN  \E ts \in PcapngTimestamp(r, b.ts_high, b.ts_low) :
             /\ pcapng_timestamp' = r
             /\ obs' = ObsBlock(b)
             /\ this_packet_ts' = IF ts = NoTime THEN this_packet_ts ELSE ts
             /\ pc' = IF ts = NoTime THEN "panic" ELSE "loop"
  /\ UNCHANGED << reader, minimum_reporting_period, dur, first_packet_ts,
                  previous_packet_ts, packet_count, byte_count_wire, byte_count_capture,
                  eof, file_type, writer >>

DecodeNext ==
  \/ DecodeLegacy
  \/ DecodePcapng

DecodeSpec == Init /\ [][DecodeNext]_vars

\* ------------------------------------------------------------------ claims
Emitted == Len(writer') = Len(writer) + 1
OneSecond == [secs |-> 1, nanos |-> 0]

\* C1: with a positive period P, a row is written at a packet step iff the
\* packet's timestamp minus previousFlushTimestamp (the first packet's
\* timestamp, later the packet timestamp of the last row) is >= P; at the
\* end-of-stream step iff that elapsed time is >= P or more than one packet
\* was counted since the last row; at no other step.
C1_EmitRule ==
  [][ /\ Len(writer') >= Len(writer)
      /\ Len(writer') <= Len(writer) + 1
      /\ (obs'.packets = obs.packets + 1) =>
           (Emitted <=>
              DurGe(TimeSub(this_packet_ts',
                            IF obs.saw_first THEN obs.flush_ts ELSE this_packet_ts'),
                    minimum_reporting_period))
      /\ (eof' /\ ~eof) =>
           (Emitted <=>
              \/ DurGe(TimeSub(this_packet_ts, obs.flush_ts), minimum_reporting_period)
              \/ packet_count > 1)
      /\ (obs'.packets = obs.packets /\ eof' = eof) => writer' = writer
    ]_vars

\* The scenario of C2: a legacy capture, P = 1 s, five packets 0.3 s apart,
\* each 100 bytes on the wire and 80 captured, read to end-of-stream.
C2_Scenario ==
  /\ pc = "done"
  /\ reader.kind = "pcap"
  /\ minimum_reporting_period = OneSecond
  /\ obs.packets = 5
  /\ obs.spaced

\* C2 as stated: the first row is written at elapsed 1.2 s with 4 packets,
\* the fifth packet is held to end-of-stream and dropped; one row in all.
C2_FourThenDropped ==
  C2_Scenario =>
    /\ Len(writer) = 1
    /\ writer[1].packet_count = 4
    /\ writer[1].elapsed_since_last_packet = [secs |-> 1, nanos |-> 200000000]
    /\ ~writer[1].at_eof

\* C2 as amended: exactly one row is written and it holds all 5 packets
\* (500 bytes on the wire, 400 captured), nothing is left for end-of-stream;
\* when the first packet's timestamp is not the epoch value the row is
\* written at the fifth packet, 1.2 s after the first (5 / 1.2 pps).
C2_AllFiveInOneRow ==
  C2_Scenario =>
    /\ Len(writer) = 1
    /\ writer[1].packet_count = 5
    /\ writer[1].byte_count_wire = 500
    /\ writer[1].byte_count_capture = 400
    /\ packet_count = 0
    /\ (obs.first_ts # epoch_ts =>
          /\ ~writer[1].at_eof
          /\ writer[1].elapsed_since_last_packet = [secs |-> 1, nanos |-> 200000000]
          /\ writer[1].elapsed_since_first_packet_us = 1200000)

C2_Witness ==
  /\ C2_Scenario
  /\ obs.first_ts # epoch_ts
  /\ Len(writer) = 1
  /\ ~writer[1].at_eof

\* The streams of C3: at least two packets, all but the last less than P
\* after the first, the last at or after P, read to end-of-stream.
C3_Shape ==
  /\ pc = "done"
  /\ obs.packets >= 2
  /\ obs.within = obs.packets - 1
  /\ obs.last_late

\* C3 as stated: such a stream yields exactly two rows, one written
\* mid-stream and one at end-of-stream.
C3_TwoRows ==
  C3_Shape => Len(writer) = 2 /\ ~writer[1].at_eof /\ writer[2].at_eof

\* C3 as amended: such a stream yields exactly one row, holding every packet
\* of the stream; when the first packet's timestamp is not the epoch value it
\* is written mid-stream at the last packet, and none at end-of-stream.
C3_OneRow ==
  C3_Shape =>
    /\ Len(writer) = 1
    /\ writer[1].packet_count = obs.packets
    /\ (obs.first_ts # epoch_ts => ~writer[1].at_eof)

C3_Witness ==
  /\ C3_Shape
  /\ obs.packets >= 3
  /\ obs.first_ts # epoch_ts
  /\ Len(writer) = 1
  /\ ~writer[1].at_eof

\* C4: a stream with exactly one packet record, whatever control blocks
\* surround it, has written no row when the run completes.
C4_SinglePacketNoRow ==
  (pc = "done" /\ obs.packets = 1) => Len(writer) = 0

C4_Witness ==
  /\ pc = "done"
  /\ obs.packets = 1
  /\ reader.returned >= 4
  /\ obs.block.type # "EnhancedPacket"
  /\ Len(writer) = 0

\* C5: when the packet timestamps are non-decreasing, the x values
\* (elapsed since the first packet) of the rows are non-decreasing.
C5_RowsInOrder ==
  obs.nondecr =>
    \A i \in 1 .. Len(writer) - 1 :
      writer[i].elapsed_since_first_packet_us <= writer[i + 1].elapsed_since_first_packet_us

C5_Witness ==
  /\ obs.nondecr
  /\ Len(writer) >= 2
  /\ writer[1].elapsed_since_first_packet_us < writer[2].elapsed_since_first_packet_us

\* The last block next() returned was an enhanced packet block and its
\* timestamp was decoded (pcapng_timestamp is the descriptor it was decoded with).
EnhancedDecoded == obs.block.type = "EnhancedPacket" /\ pc # "panic"

\* C6: under a base-2 descriptor with exponent e, ticks t resolve to
\* t >> e seconds and (t mod 2^e) * 10^9 / 2^e nanoseconds; exponent 10 and
\* t = 1536 give 1 s + 500,000,000 ns.
C6_Base2Resolved ==
  (EnhancedDecoded /\ Flag(pcapng_timestamp)) =>
    LET e == Exponent(pcapng_timestamp)
        t == Ticks(obs.block.ts_high, obs.block.ts_low)
    IN  /\ this_packet_ts.secs = t \div Pow(2, e)
        /\ this_packet_ts.nsecs = MulDiv(t % Pow(2, e), NANOS_PER_SECOND, Pow(2, e))
        /\ (e = 10 /\ t = 1536) => this_packet_ts = DateTime(1, 500000000)

\* C7: for legacy (seconds, microseconds) with microseconds < 1,000,000, the
\* resolver of descriptor 6 (base 10, exponent 6, the initial resolver)
\* applied to seconds * 10^6 + microseconds gives the timestamp the legacy
\* decoding gives, seconds + microseconds * 1000 ns: a decoded legacy packet
\* has the timestamp the resolver gives its tick count, and an enhanced
\* packet decoded under descriptor 6 the timestamp the legacy decoding
\* gives its seconds and microseconds.
C7_MicrosecondsAgree ==
  /\ (obs.block.type = "Legacy" /\ pc # "panic" /\ obs.block.ts_usec < MICROS_PER_SECOND) =>
       PcapngTimestamp(6, 0, obs.block.ts_sec * MICROS_PER_SECOND + obs.block.ts_usec)
         = { this_packet_ts }
  /\ ~obs.saw_idb => pcapng_timestamp = 6
  /\ (EnhancedDecoded /\ pcapng_timestamp = 6) =>
       LET t == Ticks(obs.block.ts_high, obs.block.ts_low)
       IN  this_packet_ts = LegacyTimestamp(t \div MICROS_PER_SECOND, t % MICROS_PER_SECOND)

C7_Witness ==
  /\ EnhancedDecoded
  /\ ~obs.saw_idb
  /\ obs.block.ts_low = 1300000
  /\ this_packet_ts = DateTime(1, 300000000)
  /\ this_packet_ts = LegacyTimestamp(1, 300000)

\* C8: the step at which next() returns a simple packet block ends the run
\* in the panic state: the block is not consumed, the counters, timestamps
\* and rows are left as they were, and no step follows a panic (no later
\* block is read, no row written).
C8_SimplePacketFatal ==
  [][ /\ (reader'.returned = reader.returned + 1 /\ obs'.block.type = "SimplePacket") =>
           /\ pc' = "panic"
           /\ reader'.front = obs'.block
           /\ reader'.consumed = reader.consumed
           /\ UNCHANGED << this_packet_ts, first_packet_ts, previous_packet_ts, packet_count,
                           byte_count_wire, byte_count_capture, writer, eof >>
      /\ pc = "panic" => UNCHANGED vars
    ]_vars

C8_Witness ==
  /\ obs.block.type = "SimplePacket"
  /\ pc = "panic"
  /\ packet_count >= 1
  /\ reader.front = obs.block

\* C9: while the run goes on or has completed, every block next() returned
\* has been consumed exactly once and none is outstanding when the next one
\* is requested; after a panic at most the block being decoded is unconsumed.
C9_ConsumedOnce ==
  /\ pc # "panic" => (reader.front = NoBlock /\ reader.consumed = reader.returned)
  /\ pc = "panic" =>
       /\ reader.consumed \in { reader.returned - 1, reader.returned }
       /\ (reader.front = NoBlock <=> reader.consumed = reader.returned)

C9_Witness ==
  /\ pc = "done"
  /\ reader.kind = "pcapng"
  /\ reader.returned >= 4
  /\ obs.packets >= 1
  /\ obs.packets < reader.returned - 1
  /\ reader.consumed = reader.returned

\* C10: on a finite input the loop eventually stops, at end-of-stream or at
\* the first fatal error; Incomplete followed by a successful refill does
\* not repeat forever.
C10_LoopStops == <>(pc \in { "done", "panic" })


ZeroDuration == [secs |-> 0, nanos |-> 0]

\* The timestamp of the packet at which the last row was written: the last
\* packet decoded for a row written at end-of-stream, else the packet whose
\* decoding wrote it.
LastEmissionTs ==
  IF writer[Len(writer)].at_eof THEN obs.last_ts ELSE obs.flush_ts

\* C11: when the stream completes, the reported total duration is the
\* timestamp of the packet at which the last row was emitted minus the first
\* packet's timestamp, and zero when no row was emitted; with non-decreasing
\* input timestamps it is never negative (computing it does not fail).
C11_TotalDuration ==
  /\ pc = "exit" =>
       dur = IF writer = << >> THEN ZeroDuration
             ELSE TimeSub(LastEmissionTs, obs.first_ts)
  /\ (eof /\ obs.nondecr) => pc # "panic"

\* C11 on the runs whose first packet is not stamped with the epoch value.
C11_AwayFromEpoch ==
  obs.first_ts # epoch_ts => C11_TotalDuration

\* A reader yields blocks of its own format only, so the packet records of a
\* legacy reader are legacy packet blocks and those of a pcapng reader are
\* enhanced packet blocks.
LegacyPacketDecoded == reader.kind = "pcap" /\ obs.packets >= 1

EnhancedPacketDecoded == reader.kind = "pcapng" /\ obs.packets >= 1

\* C12: in every state after a legacy packet block was decoded file_type is
\* "pcap", after an enhanced packet block was decoded it is "pcapng", and it
\* is "unknown" only while next() has returned no block at all.
C12_FormatTag ==
  /\ LegacyPacketDecoded => file_type = "pcap"
  /\ EnhancedPacketDecoded => file_type = "pcapng"
  /\ file_type = "unknown" => reader.returned = 0

C12_Witness ==
  /\ LegacyPacketDecoded
  /\ obs.block.type = "Legacy"
  /\ file_type = "pcap"
  /\ pc = "loop"

\* C13: first_packet_ts is assigned once, at the first packet ever decoded,
\* to that packet's timestamp, and never changes afterwards, also when that
\* timestamp is the epoch value.
C13_FirstAssignedOnce ==
  obs.saw_first => first_packet_ts = obs.first_ts

\* What a step that writes a row must do and must leave alone.
EmissionEffect ==
  /\ packet_count' = 0
  /\ byte_count_wire' = 0
  /\ byte_count_capture' = 0
  /\ previous_packet_ts' = obs'.last_ts
  /\ first_packet_ts' = first_packet_ts
  /\ file_type' = file_type
  /\ pcapng_timestamp' = pcapng_timestamp

\* What a step that writes no row leaves alone: no counter is set back to
\* 0, and once the first packet has been decoded previous_packet_ts keeps
\* its value.
NoEmissionEffect ==
  /\ packet_count # 0 => packet_count' # 0
  /\ byte_count_wire # 0 => byte_count_wire' # 0
  /\ byte_count_capture # 0 => byte_count_capture' # 0
  /\ obs.saw_first => previous_packet_ts' = previous_packet_ts

\* C14: right after every row the three counters are 0 and
\* previous_packet_ts is the timestamp of the packet decoded last, with
\* first_packet_ts, file_type and the active resolver unchanged; a step that
\* writes no row resets neither previous_packet_ts nor the counters.
C14_EmissionFrame ==
  [][IF Emitted THEN EmissionEffect ELSE NoEmissionEffect]_vars

\* C14 on the runs whose first packet is not stamped with the epoch value.
C14_AwayFromEpoch ==
  [][obs'.first_ts # epoch_ts => IF Emitted THEN EmissionEffect ELSE NoEmissionEffect]_vars

\* The descriptor of the most recent interface description block, or the
\* microsecond default (base 10, exponent 6) when none was seen.
LastDescriptor == IF obs.saw_idb THEN obs.idb_tsresol ELSE 6

\* The step decodes an enhanced packet block.
EnhancedPacketStep ==
  /\ reader'.returned = reader.returned + 1
  /\ obs'.block.type = "EnhancedPacket"
  /\ pc' # "panic"

\* C15: every enhanced packet block is decoded with the descriptor of the
\* most recent interface description block (it replaces the earlier one), or
\* with the microsecond default when none was seen; the active descriptor
\* changes only at interface description blocks.
C15_ActiveDescriptor ==
  [][/\ EnhancedPacketStep =>
          this_packet_ts' \in PcapngTimestamp(LastDescriptor, obs'.block.ts_high,
                                              obs'.block.ts_low)
     /\ pcapng_timestamp' # pcapng_timestamp =>
          /\ reader'.returned = reader.returned + 1
          /\ obs'.block.type = "InterfaceDescription"
          /\ pcapng_timestamp' = obs'.block.if_tsresol]_vars

\* An enhanced packet was decoded under the millisecond descriptor of the
\* last interface description block: 1536 ticks are 1.536 s.
C15_Witness ==
  /\ EnhancedDecoded
  /\ obs.saw_idb
  /\ reader.returned >= 4
  /\ obs.idb_tsresol = 3
  /\ pcapng_timestamp = 3
  /\ obs.block.ts_low = 1536
  /\ this_packet_ts = DateTime(1, 536000000)

\* The step handles a block that is not a packet: an interface description
\* block, the legacy file header, or a block of the `_` arm.
NonPacketBlockStep ==
  /\ reader'.returned = reader.returned + 1
  /\ obs'.block.type \in { "InterfaceDescription", "LegacyHeader", "SectionHeader",
                            "NameResolution" }

\* The step is a refill after next() asked for more data.
RefillStep ==
  /\ reader.front = NoBlock
  /\ reader'.front = NoBlock
  /\ reader'.returned = reader.returned
  /\ \/ reader'.refilled # reader.refilled
     \/ reader'.stalled # reader.stalled
     \/ reader'.spin # reader.spin

\* C16: a non-packet block and a refill leave the counters, first_packet_ts,
\* previous_packet_ts and this_packet_ts unchanged and write no row.
C16_NonPacketFrame ==
  [][(NonPacketBlockStep \/ RefillStep) =>
       UNCHANGED << packet_count, byte_count_wire, byte_count_capture, first_packet_ts,
                    previous_packet_ts, this_packet_ts, writer >>]_vars

\* An interface description block was handled while a packet was counted
\* and not yet reported.
C16_Witness ==
  /\ obs.block.type = "InterfaceDescription"
  /\ packet_count = 1
  /\ byte_count_wire = 100
  /\ this_packet_ts # epoch_ts
  /\ writer = << >>

\* C17: every timestamp decoded from a packet, from a legacy (seconds,
\* microseconds) pair or from pcapng ticks under a base-10 or base-2
\* descriptor, has a nanoseconds field below 1,000,000,000, whatever raw
\* field values the record carries.
C17_NanosBelowSecond ==
  (obs.block.type \in { "Legacy", "EnhancedPacket" } /\ pc # "panic") =>
    this_packet_ts.nsecs < NANOS_PER_SECOND

\* C17 for pcapng ticks under every descriptor but base 2, exponent 0, and
\* for legacy pairs whose microseconds are below 1,000,000.
C17_InRange ==
  ( /\ pc # "panic"
    /\ \/ obs.block.type = "EnhancedPacket" /\ pcapng_timestamp # EXPONENT_FLAG_BIT
       \/ obs.block.type = "Legacy" /\ obs.block.ts_usec < MICROS_PER_SECOND ) =>
    this_packet_ts.nsecs < NANOS_PER_SECOND

\* The packet counts of the first n rows written, summed.
RECURSIVE ReportedPackets(_)
ReportedPackets(n) ==
  IF n = 0 THEN 0 ELSE ReportedPackets(n - 1) + writer[n].packet_count

\* C18: the packet counts of all rows written plus the current packet_count
\* is the number of packet records decoded so far, the packet that triggers
\* a row being counted in that row; when the run completes at end-of-stream
\* at most one decoded packet is in no row.
C18_PacketConservation ==
  /\ ReportedPackets(Len(writer)) + packet_count = obs.packets
  /\ pc \in { "done", "exit" } => packet_count <= 1

\* A completed run with two rows and one packet left out of them.
C18_Witness ==
  /\ pc = "done"
  /\ Len(writer) = 2
  /\ packet_count = 1
  /\ obs.packets = ReportedPackets(2) + 1
  /\ writer[1].packet_count >= 2

\* Duration > 0.
Positive(d) == d.secs > 0 \/ (d.secs = 0 /\ d.nanos > 0)

\* C19: with a positive period and non-decreasing input timestamps, every
\* row written, mid-stream or at end-of-stream, has a strictly positive
\* elapsed time since the last row, the denominator of its rates.
C19_PositiveDenominator ==
  (Positive(minimum_reporting_period) /\ obs.nondecr) =>
    \A i \in 1..Len(writer) : Positive(writer[i].elapsed_since_last_packet)

\* C19 on the runs whose first packet is not stamped with the epoch value.
C19_AwayFromEpoch ==
  obs.first_ts # epoch_ts => C19_PositiveDenominator

\* C19 amended: with a positive period every row written mid-stream has an
\* elapsed time since the last row of at least the period, hence positive;
\* with non-decreasing input timestamps the row written at end-of-stream has
\* a non-negative one, which is zero when the packets it counts all carry
\* the timestamp previous_packet_ts holds.
C19_DenominatorBounds ==
  Positive(minimum_reporting_period) =>
    \A i \in 1..Len(writer) :
      /\ ~writer[i].at_eof =>
           /\ DurGe(writer[i].elapsed_since_last_packet, minimum_reporting_period)
           /\ Positive(writer[i].elapsed_since_last_packet)
      /\ obs.nondecr => DurGe(writer[i].elapsed_since_last_packet, ZeroDuration)

\* A row written at end-of-stream over a zero elapsed time, after a
\* mid-stream row, in a run with non-decreasing timestamps whose first
\* packet is not stamped with the epoch value.
C19_Witness ==
  /\ pc = "done"
  /\ obs.nondecr
  /\ obs.first_ts # epoch_ts
  /\ Len(writer) = 2
  /\ ~writer[1].at_eof
  /\ writer[2].at_eof
  /\ writer[2].packet_count = 2
  /\ writer[2].elapsed_since_last_packet = ZeroDuration

\* C20: in every reachable state the three u32 counters hold the exact
\* number and the exact wire and captured byte sums of the packets decoded
\* since the last row: no addition to them passes 2^32 - 1.
C20_CountersExact ==
  /\ ~obs.overflow
  /\ packet_count = obs.counted
  /\ obs.wire = [hi |-> Hi(byte_count_wire), lo |-> Lo(byte_count_wire)]
  /\ obs.capture = [hi |-> Hi(byte_count_capture), lo |-> Lo(byte_count_capture)]

\* C20 while the exact wire byte sum since the last row is below 2^32.
C20_BelowLimit ==
  (~obs.overflow /\ obs.wire.hi < Half /\ obs.capture.hi < Half) => C20_CountersExact
====
